---- MODULE Spec2Model ----
(***************************************************************************)
(* Customs valuation and duty assessment of raferbop/tariff_api.           *)
(*                                                                         *)
(* Texts are sequences of one-character strings, so that str.upper,        *)
(* str.lower and the substring test `a in b` are computed, not assumed.    *)
(* Money is an integer number of hundredths (cents); an exchange rate is   *)
(* an integer number of hundredths of JMD per unit (1.0 is 100); a raw     *)
(* schedule rate is an integer number of hundredths (10 percent is 1000,   *)
(* the fraction 0.5 is 50).  round(x, 2) of a binary float is modelled as  *)
(* rounding to a nearest cent; on an exact decimal tie the float product   *)
(* may lie on either side, so both neighbours are possible outcomes.       *)
(***************************************************************************)
EXTENDS Integers, Sequences, FiniteSets, TLC

\* ---------------------------------------------------------------- bounds
\* dates of the rate table are 1..MaxDate
MaxDate == 2

\* ------------------------------------------------------------- text
LowerLetters == <<"a","b","c","d","e","f","g","h","i","j","k","l","m",
                  "n","o","p","q","r","s","t","u","v","w","x","y","z">>
UpperLetters == <<"A","B","C","D","E","F","G","H","I","J","K","L","M",
                  "N","O","P","Q","R","S","T","U","V","W","X","Y","Z">>

IndexIn(letters, c) == CHOOSE i \in DOMAIN letters : letters[i] = c

\* str.upper()
upper(s) ==
  [i \in DOMAIN s |->
     IF \E j \in DOMAIN LowerLetters : LowerLetters[j] = s[i]
       THEN UpperLetters[IndexIn(LowerLetters, s[i])]
       ELSE s[i]]

\* str.lower()
lower(s) ==
  [i \in DOMAIN s |->
     IF \E j \in DOMAIN UpperLetters : UpperLetters[j] = s[i]
       THEN LowerLetters[IndexIn(UpperLetters, s[i])]
       ELSE s[i]]

\* the Python test `sub in s` on two texts
contains(sub, s) ==
  \E i \in 0..(Len(s) - Len(sub)) : SubSeq(s, i + 1, i + Len(sub)) = sub

\* ------------------------------------------------------------- dict
\* A Python dict is a sequence of <<key, value>> pairs with distinct keys,
\* in insertion order.
dict_has(d, k) == \E i \in DOMAIN d : d[i][1] = k

dict_get(d, k) == d[CHOOSE i \in DOMAIN d : d[i][1] = k][2]

\* d[k] = v : a present key keeps its position and takes the new value
dict_set(d, k, v) ==
  IF dict_has(d, k)
    THEN [i \in DOMAIN d |-> IF d[i][1] = k THEN <<k, v>> ELSE d[i]]
    ELSE Append(d, <<k, v>>)

\* ------------------------------------------------------------- currencies
USD == <<"U","S","D">>
EUR == <<"E","U","R">>
CAD == <<"C","A","D">>
JMD == <<"J","M","D">>
US_DOLLAR == <<"U",".","S","."," ","D","O","L","L","A","R">>
EURO == <<"E","U","R","O">>
CANADIAN_DOLLAR == <<"C","A","N","A","D","I","A","N"," ","D","O","L","L","A","R">>

\* Contents of the currencies table at import time: rows of <<code, name>>
\* in query order.  One table lists the base currency, the other does not.
CurrencyTables ==
  { << <<USD, US_DOLLAR>>, <<EUR, EURO>>, <<CAD, CANADIAN_DOLLAR>>, <<JMD, JMD>> >>,
    << <<CAD, CANADIAN_DOLLAR>>, <<USD, US_DOLLAR>>, <<EUR, EURO>> >> }

RECURSIVE code_to_name(_)
code_to_name(rows) ==
  IF rows = << >> THEN << >>
  ELSE LET front == SubSeq(rows, 1, Len(rows) - 1)
           curr == rows[Len(rows)]
       IN dict_set(code_to_name(front), curr[1], curr[2])

RECURSIVE name_to_code(_)
name_to_code(rows) ==
  IF rows = << >> THEN << >>
  ELSE LET front == SubSeq(rows, 1, Len(rows) - 1)
           curr == rows[Len(rows)]
       IN dict_set(name_to_code(front), curr[2], curr[1])

\* get_currency_mappings: the pair (currency_map, reverse_currency_map)
get_currency_mappings(rows) == <<code_to_name(rows), name_to_code(rows)>>

\* Python None; `not currency_code` is true of None and of the empty text
None == << >>

\* get_currency_code
get_currency_code(currency, cmap, rmap) ==
  IF dict_has(cmap, upper(currency)) THEN upper(currency)
  ELSE IF dict_has(rmap, upper(currency)) THEN dict_get(rmap, upper(currency))
  ELSE IF \E i \in DOMAIN cmap : contains(upper(currency), cmap[i][2])
    THEN cmap[CHOOSE i \in DOMAIN cmap :
                /\ contains(upper(currency), cmap[i][2])
                /\ \A j \in 1..(i - 1) : ~contains(upper(currency), cmap[j][2])][1]
  ELSE None

\* ------------------------------------------------------------- rate table
\* hundredths in one unit of a rate or of money
Hundredths == 100

\* the value 1.0 returned by fetch_currency_rate when it has no rate
DefaultRate == Hundredths

\* customs_computation imports the session factory under the name db; the
\* name SessionLocal it calls is not bound in that module, so the call
\* raises NameError, which `except Exception` handles.
SessionLocalBound == FALSE

Dates == 1..MaxDate

\* the selling rate published for a currency on a date
FeedCurrencies == {US_DOLLAR, JMD}

FeedRate(date, currency) ==
  (IF currency = US_DOLLAR THEN 15500
   ELSE IF currency = EURO THEN 17000
   ELSE 200) + (date - 1)

ScrapedRates ==
  { [date |-> d, currency |-> c, selling_rate |-> FeedRate(d, c)] :
      d \in Dates, c \in FeedCurrencies }

MaxOf(S) == CHOOSE x \in S : \A y \in S : y <= x

\* fetch_currency_rate: what the call returns and how it got there
\*   rate      the value returned
\*   via       the return statement reached
\*     "unknown"   line 39, no currency code
\*     "exception" line 73, after an exception was caught and logged
\*     "no_data"   line 73, empty rate table
\*     "no_rate"   line 73, no record of the currency on the latest date
\*     "record"    line 60, the selling rate of the record found
\*   attempted the lookup block (line 41) was entered
\*   queried   a query on the rate table was executed
\*   raised    an exception left the function (none does: every one is caught)
fetch_currency_rate(currency, table, cmap, rmap) ==
  LET currency_code == get_currency_code(currency, cmap, rmap) IN
  IF currency_code = None
    THEN [rate |-> DefaultRate, via |-> "unknown",
          attempted |-> FALSE, queried |-> FALSE, raised |-> FALSE]
  ELSE IF ~SessionLocalBound
    THEN [rate |-> DefaultRate, via |-> "exception",
          attempted |-> TRUE, queried |-> FALSE, raised |-> FALSE]
  ELSE IF table = {}
    THEN [rate |-> DefaultRate, via |-> "no_data",
          attempted |-> TRUE, queried |-> TRUE, raised |-> FALSE]
  ELSE
    LET latest_date == MaxOf({r.date : r \in table})
        found == {r \in table : /\ r.date = latest_date
                                /\ r.currency = dict_get(cmap, currency_code)}
    IN IF found = {}
         THEN [rate |-> DefaultRate, via |-> "no_rate",
               attempted |-> TRUE, queried |-> TRUE, raised |-> FALSE]
         ELSE [rate |-> (CHOOSE r \in found : TRUE).selling_rate, via |-> "record",
               attempted |-> TRUE, queried |-> TRUE, raised |-> FALSE]

\* ------------------------------------------------------------- rounding
\* round(n / d, 2) in cents, d > 0: the nearest integers to n / d
round2(n, d) ==
  LET f == n \div d
      r == n - f * d
  IN IF 2 * r < d THEN {f}
     ELSE IF 2 * r > d THEN {f + 1}
     ELSE {f, f + 1}

\* round(a * n / d, 2) in cents, d > 0, without forming the product a * n:
\* a * n / d = (a div d) * n + (a mod d) * n / d, and the first term is whole
round_ratio(a, n, d) ==
  { (a \div d) * n + x : x \in round2((a % d) * n, d) }

\* ------------------------------------------------------------- CIF
air == <<"a","i","r">>
ocean == <<"o","c","e","a","n">>
Mixed == <<"M","i","x","e","d">>

\* insurance rates 0.01 and 0.015, in thousandths
AirInsurance == 10
OceanInsurance == 15
Thousandths == 1000

\* an insurance with a minimum premium of 5.00
insurance_original_with_minimum(cif_original, mode_of_transportation) ==
  IF lower(mode_of_transportation) = air
    THEN { IF x < 500 THEN 500 ELSE x : x \in round_ratio(cif_original, AirInsurance, Thousandths) }
  ELSE IF lower(mode_of_transportation) = ocean
    THEN { IF x < 500 THEN 500 ELSE x : x \in round_ratio(cif_original, OceanInsurance, Thousandths) }
  ELSE {0}

\* insurance in original currency (lines 114-119): the amounts round() may give
insurance_original_of(cif_original, mode_of_transportation) ==
  IF lower(mode_of_transportation) = air
    THEN round_ratio(cif_original, AirInsurance, Thousandths)
  ELSE IF lower(mode_of_transportation) = ocean
    THEN round_ratio(cif_original, OceanInsurance, Thousandths)
  ELSE {0}

\* an insurance converted with the rate of the freight currency
insurance_rate_of_freight(product_rate, freight_rate) == freight_rate

\* the rate the insurance is converted to JMD with (line 122)
insurance_rate_of(product_rate, freight_rate) == product_rate

\* calculate_cif from line 102 on, with the four rates fetched at lines
\* 94-97: the set of outcomes the call may have.  An outcome is
\* [raised |-> TRUE] or [raised |-> FALSE, result |-> the dict returned].
cif_from_rates(product_price, product_currency, freight_charges, freight_currency, mode_of_transportation, jmd_rate, usd_rate, product_rate, freight_rate) ==
  LET cif_original == product_price + freight_charges
      exchange_rates ==
        dict_set(dict_set(dict_set(dict_set(<< >>, JMD, jmd_rate), USD, usd_rate),
                          product_currency, product_rate),
                 freight_currency, freight_rate)
  IN
  IF usd_rate = 0 THEN {[raised |-> TRUE]}   \* ZeroDivisionError, line 107
  ELSE
  UNION { UNION { {
    [raised |-> FALSE,
     result |->
       [cif_original |-> cif_original,
        cif_original_currency |->
          IF product_currency = freight_currency THEN product_currency ELSE Mixed,
        cif_jmd |-> s1[1] + s1[2] + s2[3],
        cif_usd |-> cif_usd,
        product_price_original |-> product_price,
        product_currency |-> product_currency,
        freight_charges_original |-> freight_charges,
        freight_currency |-> freight_currency,
        product_price_jmd |-> s1[1],
        freight_charges_jmd |-> s1[2],
        product_price_usd |-> s2[1],
        freight_charges_usd |-> s2[2],
        insurance_original_currency |-> s1[3],
        insurance_jmd |-> s2[3],
        mode_of_transportation |-> mode_of_transportation,
        exchange_rates |-> exchange_rates]]
      : cif_usd \in round_ratio(s1[1] + s1[2] + s2[3], Hundredths, usd_rate) }
    : s2 \in round_ratio(s1[1], Hundredths, usd_rate)
             \X round_ratio(s1[2], Hundredths, usd_rate)
             \X round_ratio(s1[3], insurance_rate_of(product_rate, freight_rate), Hundredths) }
    : s1 \in round_ratio(product_price, product_rate, Hundredths)
             \X round_ratio(freight_charges, freight_rate, Hundredths)
             \X insurance_original_of(cif_original, mode_of_transportation) }

\* the identifiers calculate_cif passes to fetch_currency_rate, in order
cif_lookups(product_currency, freight_currency) == <<JMD, USD, product_currency, freight_currency>>

\* calculate_cif: the four lookups on the rate table, then the arithmetic
calculate_cif(product_price, product_currency, freight_charges, freight_currency, mode_of_transportation, table, cmap, rmap) ==
  cif_from_rates(product_price, product_currency, freight_charges, freight_currency,
                 mode_of_transportation,
                 fetch_currency_rate(JMD, table, cmap, rmap).rate,
                 fetch_currency_rate(USD, table, cmap, rmap).rate,
                 fetch_currency_rate(product_currency, table, cmap, rmap).rate,
                 fetch_currency_rate(freight_currency, table, cmap, rmap).rate)

\* ------------------------------------------------------------- charges
\* the stage identifiers calculate_custom_charges reads from the schedule
Stages == {"ID-01", "ASD05", "SCTA08", "SCTS18", "SCTF028",
           "SCF90", "ENVL20", "GCT 06", "EXC023"}

\* ten-thousandths in one unit of a decimal rate
TenThousandths == 10000

\* a normalisation that also divides a rate of exactly 1
decimal_rate_from_one(v) == IF v >= Hundredths THEN v ELSE v * Hundredths

\* decimal_rates (line 183): v / 100 if v > 1 else v, in ten-thousandths
decimal_rate(v) == IF v > Hundredths THEN v ELSE v * Hundredths

\* decimal_rates.get(stage, 0)
rate_get(tax_rates, stage) ==
  IF stage \in DOMAIN tax_rates THEN decimal_rate(tax_rates[stage]) ELSE 0

\* round(base * decimal_rates.get(stage, 0), 2)
stage_charge(base, tax_rates, stage) ==
  round_ratio(base, rate_get(tax_rates, stage), TenThousandths)

\* the keys of the result dict (lines 235-251)
ResultKeys ==
  {"base_value_1 (CIF)", "base_value_2 (CIF + ID-01)", "base_value_3 (CAF)",
   "base_value_4 (all charges)", "ID-01", "ASD05", "GCT 06", "EXC023", "SCTA08",
   "SCTS18", "SCTF028", "SCF90", "ENVL20", "CAF_charge", "total_custom_charges"}

\* a filter that keeps the zero entries
nonnegative_items(result) ==
  [k \in {key \in DOMAIN result : result[key] >= 0} |-> result[k]]

\* the dict comprehension of line 252
positive_items(result) ==
  [k \in {key \in DOMAIN result : result[key] > 0} |-> result[k]]

\* a second base that leaves the duty out
base_value_2_without_duty(base_value_1, ID_01_charge) == base_value_1

\* base_value_2 (line 195)
base_value_2_of(base_value_1, ID_01_charge) == base_value_1 + ID_01_charge

\* a fourth base that leaves the administrative fee out
base_value_4_without_caf(base_value_2, b2, SCF90_charge, ENVL20_charge, CAF_charge) ==
  base_value_2 + b2[1] + b2[2] + b2[3] + b2[4]
    + SCF90_charge + ENVL20_charge

\* base_value_4 (line 222); b2 are the charges on base_value_2 in the order
\* ASD05, SCTA08, SCTS18, SCTF028
base_value_4_of(base_value_2, b2, SCF90_charge, ENVL20_charge, CAF_charge) ==
  base_value_2 + b2[1] + b2[2] + b2[3] + b2[4]
    + SCF90_charge + ENVL20_charge + CAF_charge

\* a total that leaves the administrative fee out
total_without_caf(ID_01_charge, b2, b4, SCF90_charge, ENVL20_charge, CAF_charge) ==
  ID_01_charge + b2[1] + b4[1] + b4[2] + b2[2] + b2[3] + b2[4]
    + SCF90_charge + ENVL20_charge

\* total_custom_charges (line 231)
total_of(ID_01_charge, b2, b4, SCF90_charge, ENVL20_charge, CAF_charge) ==
  ID_01_charge + b2[1] + b4[1] + b4[2] + b2[2] + b2[3] + b2[4]
    + SCF90_charge + ENVL20_charge + CAF_charge

\* calculate_custom_charges: the set of outcomes the call may have, each
\* [result |-> the dict built at line 235, returned |-> the pair returned,
\*  decimal_rates |-> the dict built at line 183].
calculate_custom_charges(tax_rates, cif, caf) ==
  LET base_value_1 == cif
      base_value_3 == caf
      CAF_charge == base_value_3
  IN
  UNION { UNION { {
    LET base_value_2 == base_value_2_of(base_value_1, b1[1])
        base_value_4 == base_value_4_of(base_value_2, b2, b1[2], b1[3], CAF_charge)
        result ==
          [k \in ResultKeys |->
             CASE k = "base_value_1 (CIF)" -> base_value_1
               [] k = "base_value_2 (CIF + ID-01)" -> base_value_2
               [] k = "base_value_3 (CAF)" -> base_value_3
               [] k = "base_value_4 (all charges)" -> base_value_4
               [] k = "ID-01" -> b1[1]
               [] k = "ASD05" -> b2[1]
               [] k = "GCT 06" -> b4[1]
               [] k = "EXC023" -> b4[2]
               [] k = "SCTA08" -> b2[2]
               [] k = "SCTS18" -> b2[3]
               [] k = "SCTF028" -> b2[4]
               [] k = "SCF90" -> b1[2]
               [] k = "ENVL20" -> b1[3]
               [] k = "CAF_charge" -> CAF_charge
               [] k = "total_custom_charges" ->
                    total_of(b1[1], b2, b4, b1[2], b1[3], CAF_charge)]
    IN [result |-> result, returned |-> <<positive_items(result), tax_rates>>,
        decimal_rates |-> [k \in DOMAIN tax_rates |-> decimal_rate(tax_rates[k])]]
      : b4 \in stage_charge(base_value_4_of(base_value_2_of(base_value_1, b1[1]),
                                            b2, b1[2], b1[3], CAF_charge),
                            tax_rates, "GCT 06")
               \X stage_charge(base_value_4_of(base_value_2_of(base_value_1, b1[1]),
                                               b2, b1[2], b1[3], CAF_charge),
                               tax_rates, "EXC023") }
    : b2 \in stage_charge(base_value_2_of(base_value_1, b1[1]), tax_rates, "ASD05")
             \X stage_charge(base_value_2_of(base_value_1, b1[1]), tax_rates, "SCTA08")
             \X stage_charge(base_value_2_of(base_value_1, b1[1]), tax_rates, "SCTS18")
             \X stage_charge(base_value_2_of(base_value_1, b1[1]), tax_rates, "SCTF028") }
    : b1 \in stage_charge(base_value_1, tax_rates, "ID-01")
             \X stage_charge(base_value_1, tax_rates, "SCF90")
             \X stage_charge(base_value_1, tax_rates, "ENVL20") }

\* ------------------------------------------------------------- administrative fee
motor_vehicle == <<"m","o","t","o","r"," ","v","e","h","i","c","l","e">>
IMS4 == <<"I","M","S","4">>
IM4 == <<"I","M","4">>

\* the amounts returned by determine_caf_rate, in JMD cents, and the
\* threshold on the CIF in USD cents
MotorVehicleFee == 5750000
HouseholdFee == 250000
EscalatedFee == 1000000
CommercialFee == 1000000
DefaultFee == 1000000
HouseholdLimit == 500000

type_missing_never(transaction_type) == FALSE

\* `not transaction_type`: true of None and of the empty text alike
type_missing(transaction_type) == transaction_type = None

is_motor_vehicle_exact(package_type) == package_type = motor_vehicle

\* package_type.lower() == 'motor vehicle'
is_motor_vehicle(package_type) == lower(package_type) = motor_vehicle

ims4_fee_inclusive(cif_value_usd) == IF cif_value_usd <= HouseholdLimit THEN HouseholdFee ELSE EscalatedFee

\* the IMS4 branch: cif_value_usd < 5000
ims4_fee(cif_value_usd) == IF cif_value_usd < HouseholdLimit THEN HouseholdFee ELSE EscalatedFee

type_fee_from_config(transaction_type, cif_value_usd) == IF upper(transaction_type) = IMS4 THEN ims4_fee(cif_value_usd) ELSE IF upper(transaction_type) = IM4 THEN CommercialFee ELSE 0

\* the fee by transaction type, compared in upper case
type_fee(transaction_type, cif_value_usd) == IF upper(transaction_type) = IMS4 THEN ims4_fee(cif_value_usd) ELSE IF upper(transaction_type) = IM4 THEN CommercialFee ELSE DefaultFee

\* the identifiers determine_caf_rate passes to fetch_currency_rate, in order
caf_lookups(transaction_type, package_type, input_currency) ==
  IF type_missing(transaction_type) \/ is_motor_vehicle(package_type) THEN << >>
  ELSE IF upper(input_currency) # USD THEN <<USD, input_currency>>
  ELSE << >>

\* determine_caf_rate with the rates its lookups returned (both unused when
\* it makes none): the possible outcomes of one call
\*   raised         an exception left the function, named in error
\*   fee            the value returned
\*   cif_value_usd  the CIF the thresholds are applied to
\*   lookups        the identifiers passed to fetch_currency_rate, in order
caf_from_rates(transaction_type, package_type, cif_value, input_currency, usd_rate, input_currency_rate) ==
  IF type_missing(transaction_type)
    THEN { [raised |-> TRUE, error |-> "ValueError", lookups |-> << >>] }
  ELSE IF is_motor_vehicle(package_type)
    THEN { [raised |-> FALSE, fee |-> MotorVehicleFee, lookups |-> << >>] }
  ELSE IF upper(input_currency) # USD
    THEN IF usd_rate = 0
           THEN { [raised |-> TRUE, error |-> "ZeroDivisionError",
                   lookups |-> <<USD, input_currency>>] }
           ELSE { [raised |-> FALSE,
                   fee |-> type_fee(transaction_type, cif_value_usd),
                   cif_value_usd |-> cif_value_usd,
                   lookups |-> <<USD, input_currency>>] :
                    cif_value_usd \in round_ratio(cif_value, input_currency_rate, usd_rate) }
  ELSE { [raised |-> FALSE,
          fee |-> type_fee(transaction_type, cif_value),
          cif_value_usd |-> cif_value,
          lookups |-> << >>] }

\* determine_caf_rate: the lookups on the rate table, then the decision
determine_caf_rate(transaction_type, package_type, cif_value, input_currency, table, cmap, rmap) ==
  caf_from_rates(transaction_type, package_type, cif_value, input_currency,
                 fetch_currency_rate(USD, table, cmap, rmap).rate,
                 fetch_currency_rate(input_currency, table, cmap, rmap).rate)

\* ------------------------------------------------------------- tax schedule
\* TaxRate.get_effective_rate: rate / 100 if rate > 1 else rate, in
\* ten-thousandths
get_effective_rate(rate) == IF rate > Hundredths THEN rate ELSE rate * Hundredths

\* TaxRate.to_dict
to_dict(row) ==
  [hs_code |-> row.hs_code, tax_id |-> row.tax_id, rate |-> row.rate,
   effective_rate |-> get_effective_rate(row.rate)]

\* rows of the tax_rates table: (hs_code, tax_id) is unique
TaxRateRows ==
  { [hs_code |-> "8703", tax_id |-> "ID-01", rate |-> 1000],
    [hs_code |-> "8703", tax_id |-> "GCT 06", rate |-> 1500],
    [hs_code |-> "8703", tax_id |-> "SCTF028", rate |-> 100],
    [hs_code |-> "8703", tax_id |-> "SCTA08", rate |-> 50],
    [hs_code |-> "0101", tax_id |-> "ID-01", rate |-> 0],
    [hs_code |-> "0101", tax_id |-> "SCF90", rate |-> 101] }

get_rates_for_any_code(table, hs_code) == table

\* TaxRate.get_rates_for_hs_code: the rows whose hs_code is the one asked for
get_rates_for_hs_code(table, hs_code) == { row \in table : row.hs_code = hs_code }

\* get_tax_rates: the mapping tax_id -> rate of the rows found, the empty
\* mapping when there is none; no exception leaves the function
get_tax_rates(hs_code, table) ==
  LET tax_rates == get_rates_for_hs_code(table, hs_code)
      tax_ids == { row.tax_id : row \in tax_rates }
  IN [raised |-> FALSE,
      rates |-> [tax_id \in tax_ids |->
                   (CHOOSE row \in tax_rates : row.tax_id = tax_id).rate]]

\* ------------------------------------------------------------- web API
\* The endpoints pass the request's database session to calculate_cif and
\* determine_caf_rate as keyword db and to get_tax_rates as a second
\* positional argument; whether the function called has such a parameter.
calculate_cif_takes_db == FALSE
get_tax_rates_takes_db == FALSE
determine_caf_rate_takes_db == FALSE

\* CIFRequest and CustomsRequest: product_price > 0, freight_charges >= 0
request_is_valid(request) ==
  /\ request.product_price > 0
  /\ request.freight_charges >= 0

\* POST /calculate-cif: the possible responses
calculate_cif_endpoint(request, table, cmap, rmap) ==
  IF ~request_is_valid(request)
    THEN { [status |-> 422, detail |-> "ValidationError"] }
  ELSE IF ~calculate_cif_takes_db
    THEN { [status |-> 400, detail |-> "TypeError"] }
  ELSE { IF outcome.raised
           THEN [status |-> 400, detail |-> "Exception"]
           ELSE [status |-> 200, body |-> outcome.result] :
         outcome \in calculate_cif(request.product_price, request.product_currency,
                                   request.freight_charges, request.freight_currency,
                                   request.mode_of_transportation, table, cmap, rmap) }

\* POST /calculate-customs, after the CIF was computed: the possible responses
customs_after_cif(request, cif_result, tax_table, table, cmap, rmap) ==
  IF ~get_tax_rates_takes_db
    THEN { [status |-> 400, detail |-> "TypeError"] }
  ELSE LET tax_rates == get_tax_rates(request.hs_code, tax_table).rates IN
  IF tax_rates = << >>
    THEN { [status |-> 404, detail |-> "No tax rates found"] }
  ELSE IF ~determine_caf_rate_takes_db
    THEN { [status |-> 400, detail |-> "TypeError"] }
  ELSE UNION {
    IF caf.raised
      THEN { [status |-> 400, detail |-> caf.error] }
      ELSE { IF "total_custom_charges" \notin DOMAIN outcome.returned[1]
               THEN [status |-> 400, detail |-> "KeyError"]
               ELSE [status |-> 200,
                     body |-> [cif_details |-> cif_result,
                               tax_rates |-> outcome.returned[2],
                               charges |-> outcome.returned[1],
                               total_custom_charges |->
                                 outcome.returned[1]["total_custom_charges"]]] :
             outcome \in calculate_custom_charges(tax_rates, cif_result.cif_jmd, caf.fee) } :
    caf \in determine_caf_rate(request.transaction_type, request.package_type,
                               cif_result.cif_usd, USD, table, cmap, rmap) }

\* POST /calculate-customs: the possible responses
calculate_customs_endpoint(request, tax_table, table, cmap, rmap) ==
  IF ~request_is_valid(request)
    THEN { [status |-> 422, detail |-> "ValidationError"] }
  ELSE IF ~calculate_cif_takes_db
    THEN { [status |-> 400, detail |-> "TypeError"] }
  ELSE UNION {
    IF cif.raised
      THEN { [status |-> 400, detail |-> "Exception"] }
      ELSE customs_after_cif(request, cif.result, tax_table, table, cmap, rmap) :
    cif \in calculate_cif(request.product_price, request.product_currency,
                          request.freight_charges, request.freight_currency,
                          request.mode_of_transportation, table, cmap, rmap) }

\* ------------------------------------------------------------- inputs
XYZ == <<"X","Y","Z">>
DOLLAR == <<"D","O","L","L","A","R">>

\* currency identifiers a request may carry
Identifiers ==
  { USD, <<"u","s","d">>, EUR, EURO, <<"e","u","r","o">>, US_DOLLAR,
    JMD, <<"j","m","d">>, XYZ, DOLLAR }

\* currencies of a valuation request
RequestCurrencies == { USD, <<"u","s","d">>, EURO, XYZ }

\* transport modes of a valuation request
Modes == { air, <<"A","I","R">>, ocean, <<"s","e","a">>,
           <<"r","a","i","l">>, <<"l","a","n","d">> }

\* product prices (positive) and freight charges (non-negative), in cents
Prices == { 50, 100000 }
Freights == { 0, 10000 }

\* raw schedule rates, in hundredths: a schedule lists any subset of the
\* stages, each at the rate below
ScheduleRate ==
  [stage \in Stages |->
     CASE stage = "ID-01" -> 1000      \* 10 percent
       [] stage = "ASD05" -> 500       \* 5 percent
       [] stage = "SCTA08" -> 50       \* the fraction 0.5
       [] stage = "SCTS18" -> 2000     \* 20 percent
       [] stage = "SCTF028" -> 100     \* exactly 1
       [] stage = "SCF90" -> 150       \* 1.5 percent
       [] stage = "ENVL20" -> 0        \* listed at rate 0
       [] stage = "GCT 06" -> 1500     \* 15 percent
       [] stage = "EXC023" -> 25]      \* the fraction 0.25

\* schedules with a negative rate and with a rate just above 1
SignedSchedules ==
  { [stage \in {"ID-01"} |-> -50],
    [stage \in {"ID-01", "GCT 06"} |-> IF stage = "ID-01" THEN 1000 ELSE -50],
    [stage \in {"SCF90", "EXC023"} |-> IF stage = "SCF90" THEN 101 ELSE -2500] }

Schedules ==
  { [stage \in S |-> ScheduleRate[stage]] : S \in SUBSET Stages } \cup SignedSchedules

\* CIF values in JMD and administrative fees, in cents
CifValues == { 100, 10000000 }
CafValues == { 0, 1000000 }

\* inputs of determine_caf_rate: transaction types, package categories, CIF
\* values around the threshold (in cents) and the currency of the CIF
TransactionTypes ==
  { None, IMS4, <<"i","m","s","4">>, IM4,
    <<"c","o","m","m","e","r","c","i","a","l">> }
PackageTypes ==
  { motor_vehicle, <<"M","o","t","o","r"," ","V","e","h","i","c","l","e">>,
    <<"e","l","e","c","t","r","o","n","i","c","s">> }
ThresholdCifValues == { 499999, 500000, 500001 }
CifCurrencies == { USD, <<"u","s","d">>, JMD, XYZ }

\* classification codes asked for: two with rows in tax_rates, one without
HsCodes == { "8703", "0101", "9999" }

\* bodies of POST /calculate-cif
CIFRequests ==
  [product_price : {0, 100000}, product_currency : {USD, XYZ},
   freight_charges : {-100, 10000}, freight_currency : {USD},
   mode_of_transportation : {air, <<"r","a","i","l">>}]

\* bodies of POST /calculate-customs
CustomsRequests ==
  [hs_code : HsCodes, transaction_type : {IMS4},
   package_type : {<<"e","l","e","c","t","r","o","n","i","c","s">>},
   product_price : {0, 100000}, product_currency : {USD, XYZ},
   freight_charges : {-100, 10000}, freight_currency : {USD},
   mode_of_transportation : {air, <<"r","a","i","l">>}]

\* ------------------------------------------------------------- state
VARIABLES
  CURRENCY_MAP,           \* config.CURRENCY_MAP, set at import
  REVERSE_CURRENCY_MAP,   \* config.REVERSE_CURRENCY_MAP, set at import
  fx_rates,               \* rows of the fx_rates table
  tax_rates_table,        \* rows of the tax_rates table
  call,                   \* the last call made and what it returned
  currencies,             \* rows of the currencies table
  calc,                   \* calculations in progress, one per request
  saver,                  \* calls of save_to_database in progress
  scraper,                \* the call of scrape_fx_rates in progress
  lbd,                    \* the call of get_last_business_day in progress
  upload                  \* the last upload made and what it returned

\* the state of the calls that run in steps, and the currencies table
jobs == <<currencies, calc, saver, scraper, lbd, upload>>

vars == <<CURRENCY_MAP, REVERSE_CURRENCY_MAP, fx_rates, tax_rates_table, call, jobs>>

\* requests being calculated and callers of save_to_database
Procs == {1, 2}
Savers == {1, 2}

\* no call in progress; `absent` marks a caller that does not exist
NoCalc == [pc |-> [p \in Procs |-> "idle"], request |-> [p \in Procs |-> << >>],
           frame |-> [p \in Procs |-> << >>], outcome |-> [p \in Procs |-> << >>]]
NoSaver == [s \in Savers |-> [pc |-> "idle"]]
Absent == [pc |-> "absent"]
NoJobs ==
  /\ calc = [NoCalc EXCEPT !.pc = [p \in Procs |-> "absent"]]
  /\ saver = [s \in Savers |-> Absent]
  /\ scraper = Absent
  /\ lbd = Absent
  /\ upload = [op |-> "none"]

Init ==
  /\ \E rows \in CurrencyTables :
       /\ currencies = rows
       /\ CURRENCY_MAP = get_currency_mappings(rows)[1]
       /\ REVERSE_CURRENCY_MAP = get_currency_mappings(rows)[2]
  /\ fx_rates = {}
  /\ tax_rates_table = TaxRateRows
  /\ call = [op |-> "none"]
  /\ NoJobs

\* Calls are served one at a time: a call starts when no call is in
\* progress, and what it returned stays in `call` until it is discarded.

\* save_to_database, one rate of the list: a row whose (date, currency) is
\* already stored is skipped, a new row is added and committed.
SaveRate ==
  \E rate \in ScrapedRates :
    /\ call.op = "none"
    /\ LET existing == {r \in fx_rates : r.date = rate.date /\ r.currency = rate.currency}
       IN IF existing # {}
            THEN /\ fx_rates' = fx_rates
                 /\ call' = [op |-> "save_to_database", rate |-> rate, saved |-> FALSE]
            ELSE /\ fx_rates' = fx_rates \cup {rate}
                 /\ call' = [op |-> "save_to_database", rate |-> rate, saved |-> TRUE]
    /\ UNCHANGED <<CURRENCY_MAP, REVERSE_CURRENCY_MAP, tax_rates_table, jobs>>

\* a call of fetch_currency_rate
FetchCurrencyRate ==
  \E currency \in Identifiers :
    /\ call.op = "none"
    /\ call' = [op |-> "fetch_currency_rate",
                currency |-> currency,
                currency_code |-> get_currency_code(currency, CURRENCY_MAP, REVERSE_CURRENCY_MAP),
                result |-> fetch_currency_rate(currency, fx_rates, CURRENCY_MAP, REVERSE_CURRENCY_MAP)]
    /\ UNCHANGED <<CURRENCY_MAP, REVERSE_CURRENCY_MAP, fx_rates, tax_rates_table, jobs>>

\* a call of calculate_cif
CalculateCif ==
  \E product_price \in Prices, product_currency \in RequestCurrencies,
     freight_charges \in Freights, freight_currency \in RequestCurrencies,
     mode_of_transportation \in Modes :
    /\ call.op = "none"
    /\ \E outcome \in calculate_cif(product_price, product_currency, freight_charges,
                                     freight_currency, mode_of_transportation,
                                     fx_rates, CURRENCY_MAP, REVERSE_CURRENCY_MAP) :
         call' = [op |-> "calculate_cif",
                  product_price |-> product_price,
                  product_currency |-> product_currency,
                  freight_charges |-> freight_charges,
                  freight_currency |-> freight_currency,
                  mode_of_transportation |-> mode_of_transportation,
                  lookups |->
                    { fetch_currency_rate(c, fx_rates, CURRENCY_MAP, REVERSE_CURRENCY_MAP) :
                        c \in {JMD, USD, product_currency, freight_currency} },
                  outcome |-> outcome]
    /\ UNCHANGED <<CURRENCY_MAP, REVERSE_CURRENCY_MAP, fx_rates, tax_rates_table, jobs>>

\* a call of calculate_custom_charges
CalculateCustomCharges ==
  \E tax_rates \in Schedules, cif \in CifValues, caf \in CafValues :
    /\ call.op = "none"
    /\ \E outcome \in calculate_custom_charges(tax_rates, cif, caf) :
         call' = [op |-> "calculate_custom_charges",
                  tax_rates |-> tax_rates, cif |-> cif, caf |-> caf,
                  decimal_rates |-> outcome.decimal_rates,
                  result |-> outcome.result,
                  returned |-> outcome.returned]
    /\ UNCHANGED <<CURRENCY_MAP, REVERSE_CURRENCY_MAP, fx_rates, tax_rates_table, jobs>>

\* a call of TaxRate.to_dict on a stored row
ToDict ==
  \E row \in tax_rates_table :
    /\ call.op = "none"
    /\ call' = [op |-> "to_dict", row |-> row, returned |-> to_dict(row)]
    /\ UNCHANGED <<CURRENCY_MAP, REVERSE_CURRENCY_MAP, fx_rates, tax_rates_table, jobs>>

\* a call of determine_caf_rate
DetermineCafRate ==
  \E transaction_type \in TransactionTypes, package_type \in PackageTypes,
     cif_value \in ThresholdCifValues, input_currency \in CifCurrencies :
    /\ call.op = "none"
    /\ \E outcome \in determine_caf_rate(transaction_type, package_type, cif_value,
                                          input_currency, fx_rates,
                                          CURRENCY_MAP, REVERSE_CURRENCY_MAP) :
         call' = [op |-> "determine_caf_rate",
                  transaction_type |-> transaction_type,
                  package_type |-> package_type,
                  cif_value |-> cif_value,
                  input_currency |-> input_currency,
                  outcome |-> outcome]
    /\ UNCHANGED <<CURRENCY_MAP, REVERSE_CURRENCY_MAP, fx_rates, tax_rates_table, jobs>>

\* a call of get_tax_rates
GetTaxRates ==
  \E hs_code \in HsCodes :
    /\ call.op = "none"
    /\ call' = [op |-> "get_tax_rates", hs_code |-> hs_code,
                result |-> get_tax_rates(hs_code, tax_rates_table)]
    /\ UNCHANGED <<CURRENCY_MAP, REVERSE_CURRENCY_MAP, fx_rates, tax_rates_table, jobs>>

\* a request to POST /calculate-cif
CalculateCifEndpoint ==
  \E request \in CIFRequests :
    /\ call.op = "none"
    /\ \E response \in calculate_cif_endpoint(request, fx_rates,
                                               CURRENCY_MAP, REVERSE_CURRENCY_MAP) :
         call' = [op |-> "calculate_cif_endpoint",
                  request |-> request, response |-> response]
    /\ UNCHANGED <<CURRENCY_MAP, REVERSE_CURRENCY_MAP, fx_rates, tax_rates_table, jobs>>

\* a request to POST /calculate-customs
CalculateCustomsEndpoint ==
  \E request \in CustomsRequests :
    /\ call.op = "none"
    /\ \E response \in calculate_customs_endpoint(request, tax_rates_table, fx_rates,
                                                   CURRENCY_MAP, REVERSE_CURRENCY_MAP) :
         call' = [op |-> "calculate_customs_endpoint",
                  request |-> request, response |-> response]
    /\ UNCHANGED <<CURRENCY_MAP, REVERSE_CURRENCY_MAP, fx_rates, tax_rates_table, jobs>>

\* the call has returned and its request-scoped values are discarded
Discard ==
  /\ call.op # "none"
  /\ call' = [op |-> "none"]
  /\ UNCHANGED <<CURRENCY_MAP, REVERSE_CURRENCY_MAP, fx_rates, tax_rates_table, jobs>>

Next ==
  \/ Discard
  \/ SaveRate
  \/ FetchCurrencyRate
  \/ CalculateCif
  \/ CalculateCustomCharges
  \/ ToDict
  \/ DetermineCafRate
  \/ GetTaxRates
  \/ CalculateCifEndpoint
  \/ CalculateCustomsEndpoint

Spec == Init /\ [][Next]_vars

\* ------------------------------------------------------------- calculations in steps
\* A calculation is a call of calculate_cif, determine_caf_rate or
\* calculate_custom_charges made for one request.  Its lookups on the rate
\* table are separate steps, so that other requests and save_to_database can
\* run between them.
electronics == <<"e","l","e","c","t","r","o","n","i","c","s">>

CalcRequests ==
  { [kind |-> "calculate_cif", product_price |-> 100000, product_currency |-> USD,
     freight_charges |-> 10000, freight_currency |-> USD, mode_of_transportation |-> air],
    [kind |-> "calculate_cif", product_price |-> 50, product_currency |-> EURO,
     freight_charges |-> 0, freight_currency |-> USD, mode_of_transportation |-> ocean],
    [kind |-> "determine_caf_rate", transaction_type |-> IMS4, package_type |-> electronics,
     cif_value |-> 500000, input_currency |-> JMD],
    [kind |-> "determine_caf_rate", transaction_type |-> IM4, package_type |-> motor_vehicle,
     cif_value |-> 499999, input_currency |-> USD],
    [kind |-> "calculate_custom_charges", tax_rates |-> [stage \in {"ID-01"} |-> 1000],
     cif |-> 10000000, caf |-> 1000000] }

\* the identifiers a calculation passes to fetch_currency_rate, in order
lookups_of(request) ==
  IF request.kind = "calculate_cif"
    THEN cif_lookups(request.product_currency, request.freight_currency)
  ELSE IF request.kind = "determine_caf_rate"
    THEN caf_lookups(request.transaction_type, request.package_type, request.input_currency)
  ELSE << >>

\* the rate the i-th lookup of a frame returned (1.0 stands in for a lookup
\* the call does not make)
rate_at(frame, i) ==
  IF i <= Len(frame.lookups) THEN frame.lookups[i].result.rate ELSE DefaultRate

\* what the call computes from the rates held in its frame
finish(frame) ==
  LET request == frame.request IN
  IF request.kind = "calculate_cif"
    THEN cif_from_rates(request.product_price, request.product_currency,
                        request.freight_charges, request.freight_currency,
                        request.mode_of_transportation,
                        rate_at(frame, 1), rate_at(frame, 2),
                        rate_at(frame, 3), rate_at(frame, 4))
  ELSE IF request.kind = "determine_caf_rate"
    THEN caf_from_rates(request.transaction_type, request.package_type,
                        request.cif_value, request.input_currency,
                        rate_at(frame, 1), rate_at(frame, 2))
  ELSE calculate_custom_charges(request.tax_rates, request.cif, request.caf)

\* parameters and locals that live in the module, shared by every call
start_frame_global(frames, p, frame) == [q \in DOMAIN frames |-> frame]

\* a call binds its parameters and locals in a frame of its own
start_frame(frames, p, frame) == [frames EXCEPT ![p] = frame]

\* the rate table holds a rate of the currency the identifier resolves to
has_rate(currency, table, cmap, rmap) ==
  LET currency_code == get_currency_code(currency, cmap, rmap)
  IN /\ currency_code # None
     /\ \E row \in table : row.currency = dict_get(cmap, currency_code)

SaveInProgress == \E s \in Savers : saver[s].pc \in {"query", "commit"}

CalcStart ==
  \E p \in Procs, request \in CalcRequests :
    /\ calc.pc[p] = "idle"
    /\ calc' = [pc |-> [calc.pc EXCEPT ![p] = "running"],
                request |-> [calc.request EXCEPT ![p] = request],
                frame |-> start_frame(calc.frame, p, [request |-> request, lookups |-> << >>]),
                outcome |-> calc.outcome]
    /\ UNCHANGED <<CURRENCY_MAP, REVERSE_CURRENCY_MAP, fx_rates, tax_rates_table, call,
                   currencies, saver, scraper, lbd, upload>>

\* one call of fetch_currency_rate; `stored` and `saving` record whether the
\* rate table held a rate of the currency and whether a save was in progress
\* at that moment
CalcLookup ==
  \E p \in Procs :
    /\ calc.pc[p] = "running"
    /\ LET frame == calc.frame[p]
           pending == lookups_of(frame.request)
       IN /\ Len(frame.lookups) < Len(pending)
          /\ LET currency == pending[Len(frame.lookups) + 1]
                 lookup == [currency |-> currency,
                            result |-> fetch_currency_rate(currency, fx_rates, CURRENCY_MAP,
                                                           REVERSE_CURRENCY_MAP),
                            stored |-> has_rate(currency, fx_rates, CURRENCY_MAP,
                                                REVERSE_CURRENCY_MAP),
                            saving |-> SaveInProgress]
             IN calc' = [calc EXCEPT !.frame[p].lookups = Append(@, lookup)]
    /\ UNCHANGED <<CURRENCY_MAP, REVERSE_CURRENCY_MAP, fx_rates, tax_rates_table, call,
                   currencies, saver, scraper, lbd, upload>>

CalcFinish ==
  \E p \in Procs :
    /\ calc.pc[p] = "running"
    /\ Len(calc.frame[p].lookups) >= Len(lookups_of(calc.frame[p].request))
    /\ \E outcome \in finish(calc.frame[p]) :
         calc' = [calc EXCEPT !.pc[p] = "done", !.outcome[p] = outcome]
    /\ UNCHANGED <<CURRENCY_MAP, REVERSE_CURRENCY_MAP, fx_rates, tax_rates_table, call,
                   currencies, saver, scraper, lbd, upload>>

\* the call has returned: nothing of it is kept
CalcReturn ==
  \E p \in Procs :
    /\ calc.pc[p] = "done"
    /\ calc' = [pc |-> [calc.pc EXCEPT ![p] = "idle"],
                request |-> [calc.request EXCEPT ![p] = << >>],
                frame |-> [calc.frame EXCEPT ![p] = << >>],
                outcome |-> [calc.outcome EXCEPT ![p] = << >>]]
    /\ UNCHANGED <<CURRENCY_MAP, REVERSE_CURRENCY_MAP, fx_rates, tax_rates_table, call,
                   currencies, saver, scraper, lbd, upload>>

\* ------------------------------------------------------------- save_to_database in steps
\* the rates scraped for one date, in table order
DailyRates(date) ==
  << [date |-> date, currency |-> US_DOLLAR, selling_rate |-> FeedRate(date, US_DOLLAR)],
     [date |-> date, currency |-> JMD, selling_rate |-> FeedRate(date, JMD)] >>

\* lists given to save_to_database: none, a day's rates, a revised rate for a
\* stored (date, currency), and one rate listed twice
RateLists ==
  { << >> } \cup { DailyRates(date) : date \in Dates }
    \cup { << [date |-> 1, currency |-> US_DOLLAR, selling_rate |-> FeedRate(1, EURO)] >>,
           << DailyRates(1)[1], DailyRates(1)[1] >> }

\* filter_by(date=rate.date, currency=rate.currency).first()
existing_rate(table, rate) ==
  \E row \in table : row.date = rate.date /\ row.currency = rate.currency

\* the loop moves to the next rate, or the function returns its two counts
next_rate(job) ==
  IF job.i < Len(job.rates)
    THEN [job EXCEPT !.pc = "query", !.i = job.i + 1]
    ELSE [job EXCEPT !.pc = "returned", !.returned = <<job.saved_count, job.skipped_count>>]

\* lines 229-235
SaverStart ==
  \E s \in Savers, rates \in RateLists :
    /\ saver[s].pc = "idle"
    /\ saver' = [saver EXCEPT ![s] =
                   [pc |-> IF rates = << >> THEN "returned" ELSE "query",
                    rates |-> rates, i |-> 1,
                    saved_count |-> 0, skipped_count |-> 0,
                    committed |-> 0, before |-> fx_rates,
                    returned |-> <<0, 0>>]]
    /\ UNCHANGED <<CURRENCY_MAP, REVERSE_CURRENCY_MAP, fx_rates, tax_rates_table, call,
                   currencies, calc, scraper, lbd, upload>>

\* lines 241-249: the query for an existing rate
SaverQuery ==
  \E s \in Savers :
    /\ saver[s].pc = "query"
    /\ LET job == saver[s] IN
       saver' = [saver EXCEPT ![s] =
                   IF existing_rate(fx_rates, job.rates[job.i])
                     THEN next_rate([job EXCEPT !.skipped_count = @ + 1])
                     ELSE [job EXCEPT !.pc = "commit"]]
    /\ UNCHANGED <<CURRENCY_MAP, REVERSE_CURRENCY_MAP, fx_rates, tax_rates_table, call,
                   currencies, calc, scraper, lbd, upload>>

\* lines 252-270: add and commit.  The commit fails with IntegrityError when
\* the (date, currency) was stored since the query (unique_daily_rate), and
\* may fail for another reason; the handler then rolls back, and when the
\* rollback itself raises, the outer handler (lines 275-277) returns.
SaverCommit ==
  \E s \in Savers, commit_fails \in BOOLEAN, rollback_fails \in BOOLEAN :
    /\ saver[s].pc = "commit"
    /\ LET job == saver[s]
           rate == job.rates[job.i]
       IN IF ~existing_rate(fx_rates, rate) /\ ~commit_fails
            THEN /\ ~rollback_fails
                 /\ fx_rates' = fx_rates \cup {rate}
                 /\ saver' = [saver EXCEPT ![s] =
                                next_rate([job EXCEPT !.saved_count = @ + 1,
                                                      !.committed = @ + 1])]
            ELSE /\ fx_rates' = fx_rates
                 /\ saver' = [saver EXCEPT ![s] =
                                IF rollback_fails
                                  THEN [job EXCEPT !.pc = "returned",
                                                   !.returned = <<0, Len(job.rates)>>]
                                  ELSE next_rate([job EXCEPT !.skipped_count = @ + 1])]
    /\ UNCHANGED <<CURRENCY_MAP, REVERSE_CURRENCY_MAP, tax_rates_table, call,
                   currencies, calc, scraper, lbd, upload>>

SaverReturn ==
  \E s \in Savers :
    /\ saver[s].pc = "returned"
    /\ saver' = [saver EXCEPT ![s] = [pc |-> "idle"]]
    /\ UNCHANGED <<CURRENCY_MAP, REVERSE_CURRENCY_MAP, fx_rates, tax_rates_table, call,
                   currencies, calc, scraper, lbd, upload>>

\* the rate tables a day may start with
StartTables == { {}, {DailyRates(1)[1]}, {DailyRates(1)[1], DailyRates(1)[2]} }

\* Two requests are calculated at the same time; nothing else runs.
InitConcurrent ==
  /\ \E rows \in CurrencyTables :
       /\ currencies = rows
       /\ CURRENCY_MAP = get_currency_mappings(rows)[1]
       /\ REVERSE_CURRENCY_MAP = get_currency_mappings(rows)[2]
  /\ fx_rates \in StartTables
  /\ tax_rates_table = TaxRateRows
  /\ call = [op |-> "none"]
  /\ calc = NoCalc
  /\ saver = [s \in Savers |-> Absent]
  /\ scraper = Absent
  /\ lbd = Absent
  /\ upload = [op |-> "none"]

NextConcurrent ==
  \/ CalcStart
  \/ CalcLookup
  \/ CalcFinish
  \/ CalcReturn

SpecConcurrent == InitConcurrent /\ [][NextConcurrent]_vars

\* One request is calculated while one caller saves rates.
InitRace ==
  /\ \E rows \in CurrencyTables :
       /\ currencies = rows
       /\ CURRENCY_MAP = get_currency_mappings(rows)[1]
       /\ REVERSE_CURRENCY_MAP = get_currency_mappings(rows)[2]
  /\ fx_rates \in StartTables
  /\ tax_rates_table = TaxRateRows
  /\ call = [op |-> "none"]
  /\ calc = [NoCalc EXCEPT !.pc = [p \in Procs |-> IF p = 1 THEN "idle" ELSE "absent"]]
  /\ saver = [s \in Savers |-> IF s = 1 THEN [pc |-> "idle"] ELSE Absent]
  /\ scraper = Absent
  /\ lbd = Absent
  /\ upload = [op |-> "none"]

NextRace ==
  \/ CalcStart
  \/ CalcLookup
  \/ CalcFinish
  \/ CalcReturn
  \/ SaverStart
  \/ SaverQuery
  \/ SaverCommit
  \/ SaverReturn

SpecRace == InitRace /\ [][NextRace]_vars

\* Two callers save rates at the same time.
InitSave ==
  /\ \E rows \in CurrencyTables :
       /\ currencies = rows
       /\ CURRENCY_MAP = get_currency_mappings(rows)[1]
       /\ REVERSE_CURRENCY_MAP = get_currency_mappings(rows)[2]
  /\ fx_rates = {}
  /\ tax_rates_table = TaxRateRows
  /\ call = [op |-> "none"]
  /\ calc = [NoCalc EXCEPT !.pc = [p \in Procs |-> "absent"]]
  /\ saver = NoSaver
  /\ scraper = Absent
  /\ lbd = Absent
  /\ upload = [op |-> "none"]

NextSave ==
  \/ SaverStart
  \/ SaverQuery
  \/ SaverCommit
  \/ SaverReturn

SpecSave == InitSave /\ [][NextSave]_vars

\* ------------------------------------------------------------- CIF arithmetic
\* The arithmetic of calculate_cif (lines 102-159) on the rates its four
\* lookups may hand it: 1.0 for every currency, or the published rate of the
\* currencies that have one.
LookupResults ==
  { [c \in RequestCurrencies \cup {JMD, USD} |-> Hundredths],
    [c \in RequestCurrencies \cup {JMD, USD} |->
       IF upper(c) = USD THEN FeedRate(1, US_DOLLAR)
       ELSE IF upper(c) = EURO THEN FeedRate(1, EURO)
       ELSE Hundredths] }

CifFromRates ==
  \E product_price \in Prices, product_currency \in RequestCurrencies,
     freight_charges \in Freights, freight_currency \in RequestCurrencies,
     mode_of_transportation \in Modes, rates \in LookupResults :
    /\ call.op = "none"
    /\ \E outcome \in cif_from_rates(product_price, product_currency, freight_charges,
                                      freight_currency, mode_of_transportation,
                                      rates[JMD], rates[USD],
                                      rates[product_currency], rates[freight_currency]) :
         call' = [op |-> "cif_from_rates",
                  product_price |-> product_price,
                  product_currency |-> product_currency,
                  freight_charges |-> freight_charges,
                  freight_currency |-> freight_currency,
                  mode_of_transportation |-> mode_of_transportation,
                  rates |-> rates,
                  outcome |-> outcome]
    /\ UNCHANGED <<CURRENCY_MAP, REVERSE_CURRENCY_MAP, fx_rates, tax_rates_table, jobs>>

NextCif ==
  \/ CifFromRates
  \/ Discard

SpecCif == Init /\ [][NextCif]_vars

\* ------------------------------------------------------------- scrape_fx_rates in steps
\* Config.MAX_RETRIES
MAX_RETRIES == 3

\* What setup_driver may do (lines 74-94): raise before the browser is
\* started, raise after webdriver.Chrome() has started it (line 87), or
\* return the started driver.
SetupOutcomes == {"raised", "raised after start", "driver"}

\* What lines 155-200 may do with a driver: raise (page load, filters, table
\* not found), find no valid rate (line 196 raises), or collect the rates.
PageOutcomes == {"raised", "no valid rates", "rates"}

\* The browser drivers are numbered in the order they are started; the
\* local `driver` is 0 while it is None.
NoDriver == 0

\* scrape_fx_rates is called: driver = None (line 149), first attempt
ScrapeStart ==
  \E date \in Dates :
    /\ scraper.pc = "idle"
    /\ scraper' = [pc |-> "setup", date |-> date, attempt |-> 0, driver |-> NoDriver,
                   started |-> 0, quits |-> << >>, outcomes |-> << >>,
                   pending |-> "none", returned |-> << >>]
    /\ UNCHANGED <<CURRENCY_MAP, REVERSE_CURRENCY_MAP, fx_rates, tax_rates_table, call, currencies, calc, saver, lbd, upload>>

\* driver = setup_driver() (line 154): `driver` is assigned only when
\* setup_driver returns
ScrapeSetup ==
  \E outcome \in SetupOutcomes :
    /\ scraper.pc = "setup"
    /\ scraper' =
         IF outcome = "driver"
           THEN [scraper EXCEPT !.pc = "page",
                                !.started = @ + 1,
                                !.driver = scraper.started + 1]
         ELSE [scraper EXCEPT !.pc = "finally",
                              !.started = IF outcome = "raised" THEN @ ELSE @ + 1,
                              !.outcomes = Append(@, outcome),
                              !.pending = IF scraper.attempt < MAX_RETRIES - 1
                                            THEN "continue" ELSE "return"]
    /\ UNCHANGED <<CURRENCY_MAP, REVERSE_CURRENCY_MAP, fx_rates, tax_rates_table, call, currencies, calc, saver, lbd, upload>>

\* lines 155-200 and the except clause (lines 205-211): the rates are
\* returned, or the attempt failed and the loop continues or gives up
ScrapePage ==
  \E outcome \in PageOutcomes :
    /\ scraper.pc = "page"
    /\ scraper' =
         IF outcome = "rates"
           THEN [scraper EXCEPT !.pc = "finally",
                                !.outcomes = Append(@, outcome),
                                !.pending = "return",
                                !.returned = DailyRates(scraper.date)]
         ELSE [scraper EXCEPT !.pc = "finally",
                              !.outcomes = Append(@, outcome),
                              !.pending = IF scraper.attempt < MAX_RETRIES - 1
                                            THEN "continue" ELSE "return"]
    /\ UNCHANGED <<CURRENCY_MAP, REVERSE_CURRENCY_MAP, fx_rates, tax_rates_table, call, currencies, calc, saver, lbd, upload>>

\* finally (lines 213-215): whatever `driver` refers to is quit, then the
\* pending continue or return takes place
ScrapeFinally ==
  /\ scraper.pc = "finally"
  /\ scraper' =
       [scraper EXCEPT !.quits = IF scraper.driver # NoDriver
                                   THEN Append(@, scraper.driver) ELSE @,
                       !.pc = IF scraper.pending = "continue" THEN "setup" ELSE "returned",
                       !.attempt = IF scraper.pending = "continue" THEN @ + 1 ELSE @,
                       !.pending = "none"]
  /\ UNCHANGED <<CURRENCY_MAP, REVERSE_CURRENCY_MAP, fx_rates, tax_rates_table, call, currencies, calc, saver, lbd, upload>>

\* the caller takes the list returned
ScrapeReturn ==
  /\ scraper.pc = "returned"
  /\ scraper' = [pc |-> "idle"]
  /\ UNCHANGED <<CURRENCY_MAP, REVERSE_CURRENCY_MAP, fx_rates, tax_rates_table, call, currencies, calc, saver, lbd, upload>>

InitScrape ==
  /\ \E rows \in CurrencyTables :
       /\ currencies = rows
       /\ CURRENCY_MAP = get_currency_mappings(rows)[1]
       /\ REVERSE_CURRENCY_MAP = get_currency_mappings(rows)[2]
  /\ fx_rates = {}
  /\ tax_rates_table = TaxRateRows
  /\ call = [op |-> "none"]
  /\ calc = [NoCalc EXCEPT !.pc = [p \in Procs |-> "absent"]]
  /\ saver = [s \in Savers |-> Absent]
  /\ scraper = [pc |-> "idle"]
  /\ lbd = Absent
  /\ upload = [op |-> "none"]

NextScrape ==
  \/ ScrapeStart
  \/ ScrapeSetup
  \/ ScrapePage
  \/ ScrapeFinally
  \/ ScrapeReturn

SpecScrape == InitScrape /\ [][NextScrape]_vars

\* ------------------------------------------------------------- get_last_business_day
\* Dates are day numbers; day 0 is a Monday, so that date.weekday() is the
\* day number modulo 7 (0 = Monday ... 6 = Sunday).
weekday(date) == date % 7

\* weekday() == 0 (line 60) and weekday() < 5 (line 66)
Monday == 0
Saturday == 5

\* the days of the safety check (line 70)
SafetyDays == 10

\* the start dates: one for each day of the week
StartDates == 21..27

\* the holiday calendars of a start date: any set of Monday-to-Friday dates
\* of the two weeks before it (a holiday on a weekend is never looked up)
Calendars(current_date) ==
  SUBSET { d \in (current_date - 14)..(current_date - 1) : weekday(d) < Saturday }

\* Config.is_holiday with the country's holidays
is_holiday(check_date, holidays) == check_date \in holidays

\* a business day that is any Monday-to-Friday date
is_business_day_ignoring_holidays(check_date, holidays) == weekday(check_date) < Saturday

\* the test of line 66
is_business_day(check_date, holidays) ==
  weekday(check_date) < Saturday /\ ~is_holiday(check_date, holidays)

\* get_last_business_day is called: check_date = current_date (line 57)
LbdStart ==
  \E current_date \in StartDates :
    \E holidays \in Calendars(current_date) :
      /\ lbd.pc = "idle"
      /\ lbd' = [pc |-> "running", current_date |-> current_date, holidays |-> holidays,
                 check_date |-> current_date]
      /\ UNCHANGED <<CURRENCY_MAP, REVERSE_CURRENCY_MAP, fx_rates, tax_rates_table, call, currencies, calc, saver, scraper, upload>>

\* one turn of the loop (lines 58-72): step back, return a business day,
\* else give up with the start date once more than 10 days back
LbdStep ==
  /\ lbd.pc = "running"
  /\ LET check_date == IF weekday(lbd.check_date) = Monday
                          THEN lbd.check_date - 3
                          ELSE lbd.check_date - 1
     IN lbd' =
          IF is_business_day(check_date, lbd.holidays)
            THEN [pc |-> "returned", current_date |-> lbd.current_date,
                  holidays |-> lbd.holidays, check_date |-> check_date,
                  result |-> check_date]
          ELSE IF lbd.current_date - check_date > SafetyDays
            THEN [pc |-> "returned", current_date |-> lbd.current_date,
                  holidays |-> lbd.holidays, check_date |-> check_date,
                  result |-> lbd.current_date]
          ELSE [lbd EXCEPT !.check_date = check_date]
  /\ UNCHANGED <<CURRENCY_MAP, REVERSE_CURRENCY_MAP, fx_rates, tax_rates_table, call, currencies, calc, saver, scraper, upload>>

\* the caller takes the date returned
LbdReturn ==
  /\ lbd.pc = "returned"
  /\ lbd' = [pc |-> "idle"]
  /\ UNCHANGED <<CURRENCY_MAP, REVERSE_CURRENCY_MAP, fx_rates, tax_rates_table, call, currencies, calc, saver, scraper, upload>>

InitLbd ==
  /\ \E rows \in CurrencyTables :
       /\ currencies = rows
       /\ CURRENCY_MAP = get_currency_mappings(rows)[1]
       /\ REVERSE_CURRENCY_MAP = get_currency_mappings(rows)[2]
  /\ fx_rates = {}
  /\ tax_rates_table = TaxRateRows
  /\ call = [op |-> "none"]
  /\ calc = [NoCalc EXCEPT !.pc = [p \in Procs |-> "absent"]]
  /\ saver = [s \in Savers |-> Absent]
  /\ scraper = Absent
  /\ lbd = [pc |-> "idle"]
  /\ upload = [op |-> "none"]

NextLbd ==
  \/ LbdStart
  \/ LbdStep
  \/ LbdReturn

\* a call that is in its loop takes the next turn of the loop
SpecLbd == InitLbd /\ [][NextLbd]_vars /\ WF_vars(LbdStep)

\* ------------------------------------------------------------- uploads in steps
\* upload_currencies and upload_tax_rates replace a table by the rows of a CSV
\* file.  The mappings of a running service were read at start-up and are not
\* reloaded by an upload.
Uploads == {"upload_currencies", "upload_tax_rates"}

\* the rows currency.csv may hold
CurrencyFiles == CurrencyTables \cup { << >> }

\* the rows tax_rates.csv may hold, as the batches (of batch_size rows, the
\* last one shorter) upload_tax_rates commits them in
TaxRateFiles ==
  { << >>,
    << TaxRateRows >>,
    << { row \in TaxRateRows : row.hs_code = "8703" },
       { row \in TaxRateRows : row.hs_code = "0101" } >> }

\* an upload is called (lines 43 and 217)
UploadStart ==
  \E op \in Uploads :
    /\ upload.op = "none"
    /\ upload' = [op |-> op, pc |-> "delete",
                  before |-> IF op = "upload_currencies" THEN currencies ELSE tax_rates_table,
                  batches |-> << >>, returned |-> FALSE]
    /\ UNCHANGED <<currencies, tax_rates_table>>
  /\ UNCHANGED <<CURRENCY_MAP, REVERSE_CURRENCY_MAP, fx_rates, call, calc, saver, scraper, lbd>>

\* "First clear existing data" (lines 46-47 and 220-221): the rows are
\* deleted and the deletion is committed; when that fails the outer handler
\* rolls back and returns False
UploadDelete ==
  \E fails \in BOOLEAN :
    /\ upload.op \in Uploads
    /\ upload.pc = "delete"
    /\ IF fails
         THEN /\ upload' = [upload EXCEPT !.pc = "returned", !.returned = FALSE]
              /\ UNCHANGED <<currencies, tax_rates_table>>
         ELSE /\ upload' = [upload EXCEPT !.pc = "file"]
              /\ IF upload.op = "upload_currencies"
                   THEN currencies' = << >> /\ tax_rates_table' = tax_rates_table
                   ELSE tax_rates_table' = {} /\ currencies' = currencies
  /\ UNCHANGED <<CURRENCY_MAP, REVERSE_CURRENCY_MAP, fx_rates, call, calc, saver, scraper, lbd>>

\* the CSV file is looked for and read (lines 49-111 and 223-287): a missing
\* file returns False
UploadFile ==
  \E exists \in BOOLEAN :
    /\ upload.op \in Uploads
    /\ upload.pc = "file"
    /\ IF ~exists
         THEN upload' = [upload EXCEPT !.pc = "returned", !.returned = FALSE]
         ELSE \E file \in IF upload.op = "upload_currencies"
                             THEN { <<rows>> : rows \in CurrencyFiles }
                             ELSE TaxRateFiles :
                upload' = [upload EXCEPT !.pc = "insert", !.batches = file]
    /\ UNCHANGED <<currencies, tax_rates_table>>
  /\ UNCHANGED <<CURRENCY_MAP, REVERSE_CURRENCY_MAP, fx_rates, call, calc, saver, scraper, lbd>>

\* upload_currencies, lines 113-123: all rows are inserted and committed at
\* once; a failure is rolled back and returns False
UploadCurrenciesInsert ==
  \E fails \in BOOLEAN :
    /\ upload.op = "upload_currencies"
    /\ upload.pc = "insert"
    /\ IF fails
         THEN /\ upload' = [upload EXCEPT !.pc = "returned", !.returned = FALSE]
              /\ currencies' = currencies
         ELSE /\ upload' = [upload EXCEPT !.pc = "returned", !.returned = TRUE,
                                          !.batches = << >>]
              /\ currencies' = upload.batches[1]
    /\ UNCHANGED tax_rates_table
  /\ UNCHANGED <<CURRENCY_MAP, REVERSE_CURRENCY_MAP, fx_rates, call, calc, saver, scraper, lbd>>

\* upload_tax_rates, lines 289-299 and 324-329: each batch is inserted and
\* committed on its own; a failure rolls back the batch in hand and returns
\* False; True is returned after the last batch
UploadTaxRatesBatch ==
  \E fails \in BOOLEAN :
    /\ upload.op = "upload_tax_rates"
    /\ upload.pc = "insert"
    /\ IF upload.batches = << >>
         THEN /\ ~fails
              /\ upload' = [upload EXCEPT !.pc = "returned", !.returned = TRUE]
              /\ tax_rates_table' = tax_rates_table
         ELSE IF fails
           THEN /\ upload' = [upload EXCEPT !.pc = "returned", !.returned = FALSE]
                /\ tax_rates_table' = tax_rates_table
           ELSE /\ upload' = [upload EXCEPT !.batches = Tail(@)]
                /\ tax_rates_table' = tax_rates_table \cup Head(upload.batches)
    /\ UNCHANGED currencies
  /\ UNCHANGED <<CURRENCY_MAP, REVERSE_CURRENCY_MAP, fx_rates, call, calc, saver, scraper, lbd>>

\* the caller takes the value returned
UploadReturn ==
  /\ upload.op \in Uploads
  /\ upload.pc = "returned"
  /\ upload' = [op |-> "none"]
  /\ UNCHANGED <<currencies, tax_rates_table>>
  /\ UNCHANGED <<CURRENCY_MAP, REVERSE_CURRENCY_MAP, fx_rates, call, calc, saver, scraper, lbd>>

NextUpload ==
  \/ UploadStart
  \/ UploadDelete
  \/ UploadFile
  \/ UploadCurrenciesInsert
  \/ UploadTaxRatesBatch
  \/ UploadReturn

SpecUpload == Init /\ [][NextUpload]_vars

\* ------------------------------------------------------------- properties
\* the codes and the full names of the currency table
KnownCodes == { CURRENCY_MAP[i][1] : i \in DOMAIN CURRENCY_MAP }
KnownNames == { CURRENCY_MAP[i][2] : i \in DOMAIN CURRENCY_MAP }

\* an identifier that is a known code or a known full name, in any letter case
IsKnown(currency) == upper(currency) \in KnownCodes \cup KnownNames

\* the full name a known identifier stands for
NameOf(currency) ==
  IF upper(currency) \in KnownCodes
    THEN dict_get(CURRENCY_MAP, upper(currency))
    ELSE upper(currency)

\* the records of a currency name on the latest date of the rate table
LatestRecords(name) ==
  { r \in fx_rates : /\ r.currency = name
                     /\ \A other \in fx_rates : other.date <= r.date }

IsBase(currency) == upper(currency) = JMD

\* C1: resolving a known non-base currency for which the rate table holds
\* no record on its latest date (or holds nothing at all) fails with a
\* rate-not-found error; it never returns a rate.
C1_AbsentRateIsAnError ==
  ( /\ call.op = "fetch_currency_rate"
    /\ IsKnown(call.currency)
    /\ ~IsBase(call.currency)
    /\ LatestRecords(NameOf(call.currency)) = {} )
  => call.result.raised

\* C2: resolving the base currency JMD yields exactly 1.0 and never enters
\* the rate lookup.
C2_BaseCurrencyIsNeverLookedUp ==
  ( /\ call.op = "fetch_currency_rate"
    /\ IsBase(call.currency) )
  => /\ call.result.rate = Hundredths
     /\ ~call.result.raised
     /\ ~call.result.attempted

\* C3: a rate returned for a known non-base currency is the selling rate of
\* the record of that currency dated the latest date of the whole table.
C3_ReturnedRateIsLatestRecord ==
  ( /\ call.op = "fetch_currency_rate"
    /\ IsKnown(call.currency)
    /\ ~IsBase(call.currency)
    /\ ~call.result.raised )
  => \E r \in LatestRecords(NameOf(call.currency)) :
       call.result.rate = r.selling_rate

\* C4: an identifier that is neither a known code nor a known full name is
\* rejected with an error: no rate is returned for it and it is mapped to no
\* currency.
C4_UnknownCurrencyIsRejected ==
  ( /\ call.op = "fetch_currency_rate"
    /\ ~IsKnown(call.currency) )
  => /\ call.result.raised
     /\ call.currency_code = None

\* the transport modes named by the valuation rules and the configuration
RecognisedModes == { air, ocean, <<"s","e","a">>, <<"l","a","n","d">> }

\* C5: calculate_cif with a transport mode outside the recognised
\* enumeration raises an error and returns no result.
C5_UnknownModeIsAnError ==
  ( /\ call.op = "calculate_cif"
    /\ lower(call.mode_of_transportation) \notin RecognisedModes )
  => call.outcome.raised

\* C6: a calculation in which the rate lookup of any consulted currency
\* failed returns no CIF result.
C6_LookupFailurePropagates ==
  ( /\ call.op = "calculate_cif"
    /\ \E lookup \in call.lookups : lookup.via # "record" )
  => call.outcome.raised

\* C7: the insurance in original currency is 1 percent of cif_original for
\* air and 1.5 percent for ocean or sea, the mode compared without regard to
\* letter case, rounded to 2 decimals.
C7_InsuranceByMode ==
  ( /\ call.op = "calculate_cif"
    /\ ~call.outcome.raised )
  => LET result == call.outcome.result
         mode == lower(call.mode_of_transportation)
     IN /\ mode = air =>
             result.insurance_original_currency
               \in round_ratio(result.cif_original, 1, 100)
        /\ mode \in {ocean, <<"s","e","a">>} =>
             result.insurance_original_currency
               \in round_ratio(result.cif_original, 15, 1000)

\* the charge of a stage is its normalised rate applied to a base, rounded
\* to 2 decimals; a stage missing from the schedule has rate 0
ChargedOn(result, tax_rates, stage, base) ==
  result[stage] \in
    round_ratio(base,
                IF stage \in DOMAIN tax_rates THEN decimal_rate(tax_rates[stage]) ELSE 0,
                TenThousandths)

\* C8: the cascade. base1 is the CIF; ID-01 is charged on base1; base2 is
\* base1 plus the ID-01 charge; ASD05, SCTA08, SCTS18 and SCTF028 are charged
\* on base2; SCF90 and ENVL20 are charged on base1; the CAF charge is the
\* administrative fee; base4 is base2 plus the four base2 charges, the two
\* base1 charges and the CAF charge; GCT 06 and EXC023 are charged on base4;
\* a stage missing from the schedule has charge 0.
C8_Cascade ==
  call.op = "calculate_custom_charges" =>
    LET r == call.result
        t == call.tax_rates
        base1 == r["base_value_1 (CIF)"]
        base2 == r["base_value_2 (CIF + ID-01)"]
        base4 == r["base_value_4 (all charges)"]
    IN /\ base1 = call.cif
       /\ ChargedOn(r, t, "ID-01", base1)
       /\ base2 = base1 + r["ID-01"]
       /\ \A stage \in {"ASD05", "SCTA08", "SCTS18", "SCTF028"} :
            ChargedOn(r, t, stage, base2)
       /\ \A stage \in {"SCF90", "ENVL20"} : ChargedOn(r, t, stage, base1)
       /\ r["CAF_charge"] = call.caf
       /\ base4 = base2 + r["ASD05"] + r["SCTA08"] + r["SCTS18"] + r["SCTF028"]
                    + r["SCF90"] + r["ENVL20"] + r["CAF_charge"]
       /\ \A stage \in {"GCT 06", "EXC023"} : ChargedOn(r, t, stage, base4)
       /\ \A stage \in Stages \ DOMAIN t : r[stage] = 0

\* a cascade in which base1, base2 and base4 differ, a base1 stage and a
\* base4 stage are charged, and a stage is missing from the schedule
C8_Witness ==
  /\ call.op = "calculate_custom_charges"
  /\ call.result["ID-01"] > 0
  /\ call.result["SCTS18"] > 0
  /\ call.result["SCF90"] > 0
  /\ call.result["GCT 06"] > 0
  /\ call.caf > 0
  /\ "ASD05" \notin DOMAIN call.tax_rates

RECURSIVE SumOver(_, _)
SumOver(f, keys) ==
  IF keys = {} THEN 0
  ELSE LET k == CHOOSE x \in keys : TRUE
       IN f[k] + SumOver(f, keys \ {k})

\* C9: the total equals the sum of every computed stage charge (ID-01, the
\* four base2 charges, the two base1 charges, the CAF charge and the two
\* base4 charges), the charges filtered out of the returned mapping
\* included; a total that is returned is that total.
C9_TotalIsSumOfCharges ==
  call.op = "calculate_custom_charges" =>
    /\ call.result["total_custom_charges"]
         = SumOver(call.result, Stages \cup {"CAF_charge"})
    /\ "total_custom_charges" \in DOMAIN call.returned[1] =>
         call.returned[1]["total_custom_charges"]
           = SumOver(call.result, Stages \cup {"CAF_charge"})

\* a total is returned while a listed stage (ENVL20, at rate 0) and a
\* missing stage are filtered out of the returned mapping
C9_Witness ==
  /\ call.op = "calculate_custom_charges"
  /\ "total_custom_charges" \in DOMAIN call.returned[1]
  /\ "ENVL20" \in DOMAIN call.tax_rates
  /\ "ENVL20" \notin DOMAIN call.returned[1]
  /\ "GCT 06" \in DOMAIN call.returned[1]
  /\ "ID-01" \in DOMAIN call.returned[1]
  /\ call.caf > 0

\* C10: every entry of the returned charge mapping is strictly positive, and
\* a stage whose computed charge is zero is not in the returned mapping.
C10_ReturnedEntriesPositive ==
  call.op = "calculate_custom_charges" =>
    /\ \A k \in DOMAIN call.returned[1] : call.returned[1][k] > 0
    /\ \A k \in DOMAIN call.result :
         call.result[k] = 0 => k \notin DOMAIN call.returned[1]

\* a stage listed at rate 0 has a zero charge while other entries are returned
C10_Witness ==
  /\ call.op = "calculate_custom_charges"
  /\ "ENVL20" \in DOMAIN call.tax_rates
  /\ call.result["ENVL20"] = 0
  /\ call.caf = 0
  /\ call.result["CAF_charge"] = 0
  /\ "ID-01" \in DOMAIN call.returned[1]

\* the entries of the returned mapping that are charges
ChargeKeys == Stages \cup {"CAF_charge"}

\* C11: with a schedule whose rates are all zero (or that is empty) and an
\* administrative fee of 0, the call returns no charge entry and a total of 0,
\* for any positive CIF value.
C11_ZeroScheduleGivesZeroTotal ==
  ( /\ call.op = "calculate_custom_charges"
    /\ \A stage \in DOMAIN call.tax_rates : call.tax_rates[stage] = 0
    /\ call.caf = 0
    /\ call.cif > 0 )
  => /\ DOMAIN call.returned[1] \cap ChargeKeys = {}
     /\ "total_custom_charges" \in DOMAIN call.returned[1]
     /\ call.returned[1]["total_custom_charges"] = 0

\* the rule of normalisation, a raw rate in hundredths giving a decimal rate
\* in ten-thousandths: above 1 the rate is divided by 100, else it is kept
Normalised(v) == IF v > 100 THEN v ELSE 100 * v

\* C12: every schedule rate strictly greater than 1 is divided by 100 before
\* use and every rate less than or equal to 1 is used unchanged, in
\* calculate_custom_charges and in TaxRate.get_effective_rate alike.
C12_RateNormalisation ==
  /\ call.op = "calculate_custom_charges" =>
       /\ \A stage \in DOMAIN call.tax_rates :
            call.decimal_rates[stage] = Normalised(call.tax_rates[stage])
       /\ \A stage \in DOMAIN call.tax_rates \cap {"ID-01", "SCF90", "ENVL20"} :
            call.result[stage] \in
              round_ratio(call.cif, Normalised(call.tax_rates[stage]), 10000)
  /\ call.op = "to_dict" =>
       call.returned.effective_rate = Normalised(call.row.rate)

\* a schedule with a rate above 1, a rate of exactly 1 and a rate below 1
C12_Witness ==
  /\ call.op = "calculate_custom_charges"
  /\ \E stage \in DOMAIN call.tax_rates : call.tax_rates[stage] > 100
  /\ \E stage \in DOMAIN call.tax_rates : call.tax_rates[stage] = 100
  /\ \E stage \in DOMAIN call.tax_rates :
       call.tax_rates[stage] > 0 /\ call.tax_rates[stage] < 100
  /\ "SCF90" \in DOMAIN call.tax_rates
  /\ call.result["SCF90"] > 0

\* C13: a schedule rate that is zero or negative means no charge at that
\* stage: its computed charge is 0, so that no later base and no total is
\* lowered by it.
C13_NonPositiveRateChargesNothing ==
  call.op = "calculate_custom_charges" =>
    /\ \A stage \in DOMAIN call.tax_rates :
         call.tax_rates[stage] <= 0 => call.result[stage] = 0
    /\ call.result["base_value_2 (CIF + ID-01)"] >= call.result["base_value_1 (CIF)"]
    /\ call.result["base_value_4 (all charges)"] >= call.result["base_value_2 (CIF + ID-01)"]
    /\ call.result["total_custom_charges"] >= 0

\* C14: a package category equal to "motor vehicle" in any letter case gets
\* the fixed fee of 57500 JMD for every transaction type, every CIF value and
\* every input currency, and the rate resolver is not consulted.
C14_MotorVehicleFixedFee ==
  (call.op = "determine_caf_rate" /\ lower(call.package_type) = motor_vehicle)
    => /\ ~call.outcome.raised
       /\ call.outcome.fee = 5750000
       /\ call.outcome.lookups = << >>

\* C14 as amended: the same for every non-empty transaction type.
C14_MotorVehicleFixedFeeForGivenType ==
  (/\ call.op = "determine_caf_rate"
   /\ lower(call.package_type) = motor_vehicle
   /\ call.transaction_type # << >>)
    => /\ ~call.outcome.raised
       /\ call.outcome.fee = 5750000
       /\ call.outcome.lookups = << >>

\* a motor vehicle written in mixed case, declared as household goods with a
\* CIF given in JMD, got the fixed fee
C14_Witness ==
  /\ call.op = "determine_caf_rate"
  /\ call.package_type # motor_vehicle
  /\ lower(call.package_type) = motor_vehicle
  /\ call.transaction_type = IMS4
  /\ call.input_currency = JMD
  /\ ~call.outcome.raised
  /\ call.outcome.fee = 5750000

\* C15: for transaction type IMS4 and a package that is not a motor vehicle,
\* the fee is 2500 JMD when the CIF in USD is strictly below 5000 and 10000 JMD
\* when it is 5000 or more; a CIF given in USD is compared as given.
C15_HouseholdThreshold ==
  (/\ call.op = "determine_caf_rate"
   /\ upper(call.transaction_type) = IMS4
   /\ lower(call.package_type) # motor_vehicle)
    => /\ ~call.outcome.raised
       /\ upper(call.input_currency) = USD => call.outcome.cif_value_usd = call.cif_value
       /\ call.outcome.cif_value_usd < 500000 => call.outcome.fee = 250000
       /\ call.outcome.cif_value_usd >= 500000 => call.outcome.fee = 1000000

\* a household shipment worth exactly 5000 USD got the escalated fee
C15_Witness ==
  /\ call.op = "determine_caf_rate"
  /\ upper(call.transaction_type) = IMS4
  /\ lower(call.package_type) # motor_vehicle
  /\ call.input_currency = USD
  /\ call.cif_value = 500000
  /\ ~call.outcome.raised
  /\ call.outcome.fee = 1000000

C17_MissingTypeIsAnError ==
  (call.op = "determine_caf_rate" /\ call.transaction_type = << >>)
    => /\ call.outcome.raised
       /\ call.outcome.error = "ValueError"
       /\ "fee" \notin DOMAIN call.outcome

\* a motor vehicle declared without a transaction type was refused
C17_Witness ==
  /\ call.op = "determine_caf_rate"
  /\ call.transaction_type = << >>
  /\ lower(call.package_type) = motor_vehicle
  /\ call.outcome.raised

\* a request the endpoints are specified to answer: positive price,
\* non-negative freight, known currencies, a recognised transport mode
IsValidRequest(request) ==
  /\ request.product_price > 0
  /\ request.freight_charges >= 0
  /\ IsKnown(request.product_currency)
  /\ IsKnown(request.freight_currency)
  /\ request.mode_of_transportation \in RecognisedModes

HasScheduleEntries(hs_code) == \E row \in tax_rates_table : row.hs_code = hs_code

\* C18: a valid request is answered with the computed result, never with a
\* client error: POST /calculate-cif returns the CIF breakdown, and POST
\* /calculate-customs for a code with schedule entries returns the CIF
\* breakdown, the charges and the total.
C18_ValidRequestIsAnswered ==
  /\ (call.op = "calculate_cif_endpoint" /\ IsValidRequest(call.request))
       => /\ call.response.status = 200
          /\ "cif_jmd" \in DOMAIN call.response.body
  /\ (/\ call.op = "calculate_customs_endpoint"
      /\ IsValidRequest(call.request)
      /\ HasScheduleEntries(call.request.hs_code))
       => /\ call.response.status = 200
          /\ {"cif_details", "charges", "total_custom_charges"}
               \subseteq DOMAIN call.response.body

\* C19: for a classification code without schedule entries get_tax_rates
\* returns the empty mapping and raises nothing, and a request to POST
\* /calculate-customs for that code gets a client error (status 4xx) and no
\* charge breakdown.
C19_UnknownCodeIsAClientError ==
  /\ (call.op = "get_tax_rates" /\ ~HasScheduleEntries(call.hs_code))
       => /\ ~call.result.raised
          /\ call.result.rates = << >>
  /\ (call.op = "calculate_customs_endpoint" /\ ~HasScheduleEntries(call.request.hs_code))
       => /\ call.response.status \in 400..499
          /\ "body" \notin DOMAIN call.response

\* the schedule of a code without entries was looked up while other codes
\* have entries
C19_Witness ==
  /\ call.op = "get_tax_rates"
  /\ ~HasScheduleEntries(call.hs_code)
  /\ tax_rates_table # {}
  /\ call.result.rates = << >>

\* C20: 1000 USD of goods and 100 USD of freight by air, with a USD rate of
\* 155.00 stored for the latest date, give cif_original 1100 in "USD",
\* insurance 11.00 in USD and 1705.00 in JMD, a CIF of 172205.00 JMD and a
\* CIF in USD of 172205.00 / 155.00 rounded to the cent.
C20_Scenario ==
  (/\ call.op = "calculate_cif"
   /\ call.product_price = 100000 /\ call.product_currency = USD
   /\ call.freight_charges = 10000 /\ call.freight_currency = USD
   /\ call.mode_of_transportation = air
   /\ LatestRecords(US_DOLLAR) # {}
   /\ \A r \in LatestRecords(US_DOLLAR) : r.selling_rate = 15500)
    => /\ ~call.outcome.raised
       /\ call.outcome.result.cif_original = 110000
       /\ call.outcome.result.cif_original_currency = USD
       /\ call.outcome.result.insurance_original_currency = 1100
       /\ call.outcome.result.insurance_jmd = 170500
       /\ call.outcome.result.cif_jmd = 17220500
       /\ call.outcome.result.cif_usd \in round_ratio(17220500, 100, 15500)

\* the returned charge mapping of the last call of calculate_custom_charges
Charges == call.returned[1]

\* C21: a schedule holding only ID-01 at rate 10, a CIF of 100000.00 and an
\* administrative fee of 10000.00 give an ID-01 charge of 10000.00, a second
\* base of 110000.00, a fourth base of 120000.00 and a total of 20000.00.
C21_Scenario ==
  (/\ call.op = "calculate_custom_charges"
   /\ DOMAIN call.tax_rates = {"ID-01"}
   /\ call.tax_rates["ID-01"] = 1000
   /\ call.cif = 10000000
   /\ call.caf = 1000000)
    => /\ {"ID-01", "base_value_2 (CIF + ID-01)", "base_value_4 (all charges)",
           "total_custom_charges"} \subseteq DOMAIN Charges
       /\ Charges["ID-01"] = 1000000
       /\ Charges["base_value_2 (CIF + ID-01)"] = 11000000
       /\ Charges["base_value_4 (all charges)"] = 12000000
       /\ Charges["total_custom_charges"] = 2000000

\* the scenario was computed and returned a total of 20000.00
C21_Witness ==
  /\ call.op = "calculate_custom_charges"
  /\ DOMAIN call.tax_rates = {"ID-01"}
  /\ call.tax_rates["ID-01"] = 1000
  /\ call.cif = 10000000
  /\ call.caf = 1000000
  /\ "total_custom_charges" \in DOMAIN Charges
  /\ Charges["total_custom_charges"] = 2000000

\* the factors price and freight are multiplied by
Scales == {2, 3}

Abs(x) == IF x < 0 THEN -x ELSE x
CeilDiv(a, b) == (a + b - 1) \div b

\* The distance allowed between a field of the scaled result and k times the
\* field of the result, in half cents.  One rounding moves a value by at most
\* half a cent, so a field rounded once may differ by (k + 1) half cents; a
\* field computed from rounded fields inherits their distance, multiplied or
\* divided by the rate it is converted with, and adds its own rounding.
Tolerance(k, product_rate, usd_rate) ==
  LET once == k + 1
      insurance_original == once
      insurance_jmd == CeilDiv(insurance_original * product_rate, Hundredths) + once
      cif_jmd == once + once + insurance_jmd
  IN [cif_original |-> 0,
      product_price_original |-> 0,
      freight_charges_original |-> 0,
      product_price_jmd |-> once,
      freight_charges_jmd |-> once,
      product_price_usd |-> CeilDiv(once * Hundredths, usd_rate) + once,
      freight_charges_usd |-> CeilDiv(once * Hundredths, usd_rate) + once,
      insurance_original_currency |-> insurance_original,
      insurance_jmd |-> insurance_jmd,
      cif_jmd |-> cif_jmd,
      cif_usd |-> CeilDiv(cif_jmd * Hundredths, usd_rate) + once]

MoneyFields == DOMAIN Tolerance(1, Hundredths, Hundredths)

\* the outcomes of the last call of calculate_cif repeated on the same rate
\* table with price and freight multiplied by k
Scaled(k) ==
  calculate_cif(k * call.product_price, call.product_currency,
                k * call.freight_charges, call.freight_currency,
                call.mode_of_transportation,
                fx_rates, CURRENCY_MAP, REVERSE_CURRENCY_MAP)

\* C22: with currencies, mode and rate table fixed, multiplying price and
\* freight by k multiplies every money field of the CIF result by k, up to the
\* rounding to the cent made at each step.
C22_Linearity ==
  (call.op = "calculate_cif" /\ ~call.outcome.raised)
    => \A k \in Scales : \A scaled \in Scaled(k) :
         /\ ~scaled.raised
         /\ LET rates == call.outcome.result.exchange_rates
                allowed == Tolerance(k, dict_get(rates, call.product_currency),
                                     dict_get(rates, USD))
            IN \A field \in MoneyFields :
                 2 * Abs(scaled.result[field] - k * call.outcome.result[field])
                   <= allowed[field]

\* a price of 0.50 by air was insured for 0.01 (0.005 rounded up), and three
\* times the price is insured for 0.01 too, not for 0.03
C22_Witness ==
  /\ call.op = "calculate_cif"
  /\ ~call.outcome.raised
  /\ call.product_price = 50 /\ call.freight_charges = 0
  /\ call.outcome.result.insurance_original_currency = 1
  /\ \E scaled \in Scaled(3) : scaled.result.insurance_original_currency = 1

\* two identifiers name the same currency: they are equal, or both resolve
\* to the same currency code
CodeOf(currency) == get_currency_code(currency, CURRENCY_MAP, REVERSE_CURRENCY_MAP)
SameCurrency(a, b) == a = b \/ (CodeOf(a) # None /\ CodeOf(a) = CodeOf(b))

\* C23: the currency tag of cif_original is "Mixed" exactly when product and
\* freight currency are different currencies, and otherwise names the shared
\* currency; a code and its full name, or one code in two letter cases, are
\* the same currency.
C23_MixedExactlyWhenCurrenciesDiffer ==
  (call.op = "calculate_cif" /\ ~call.outcome.raised)
    => LET tag == call.outcome.result.cif_original_currency IN
       /\ tag = Mixed <=> ~SameCurrency(call.product_currency, call.freight_currency)
       /\ SameCurrency(call.product_currency, call.freight_currency)
            => SameCurrency(tag, call.product_currency)

\* the outcomes of a request calculated alone on the present tables
Alone(request) ==
  IF request.kind = "calculate_cif"
    THEN calculate_cif(request.product_price, request.product_currency,
                       request.freight_charges, request.freight_currency,
                       request.mode_of_transportation,
                       fx_rates, CURRENCY_MAP, REVERSE_CURRENCY_MAP)
  ELSE IF request.kind = "determine_caf_rate"
    THEN determine_caf_rate(request.transaction_type, request.package_type,
                            request.cif_value, request.input_currency,
                            fx_rates, CURRENCY_MAP, REVERSE_CURRENCY_MAP)
  ELSE calculate_custom_charges(request.tax_rates, request.cif, request.caf)

\* a finished calculation holds an outcome of its own request calculated
\* alone, and a caller that is not calculating holds nothing
IsolatedResults ==
  \A p \in Procs :
    /\ calc.pc[p] = "done" => calc.outcome[p] \in Alone(calc.request[p])
    /\ calc.pc[p] = "idle" => calc.frame[p] = << >> /\ calc.outcome[p] = << >>

\* a step of a calculation leaves the rate table and the tax schedule as
\* they are
NoWrite ==
  calc' # calc => fx_rates' = fx_rates /\ tax_rates_table' = tax_rates_table

\* C24: calculations write neither the rate table nor the tax schedule and
\* keep nothing between calls, so whatever the interleaving of two
\* calculations on an unchanged store, each returns what it returns alone.
C24_ConcurrentCalculationsAreIsolated == []IsolatedResults /\ [][NoWrite]_vars

\* a calculation finished while a different request was being calculated
\* between two of its own lookups
C24_Witness ==
  /\ calc.pc[1] = "done"
  /\ calc.pc[2] = "running"
  /\ calc.request[1] # calc.request[2]
  /\ Len(calc.frame[1].lookups) > 0
  /\ Len(calc.frame[2].lookups) > 0
  /\ Len(calc.frame[2].lookups) < Len(lookups_of(calc.request[2]))
\* the values round(a * n / d, 2) may take
Rounded(a, n, d) == round_ratio(a, n, d)

\* C25: in every CIF result, each value rounded to the cent when computed,
\* the product in JMD is the price times the product currency's rate, the
\* freight in JMD is the freight times the freight currency's rate, the
\* insurance in JMD is the insurance times the product currency's rate (also
\* when the freight currency differs), the CIF in JMD is the sum of the three,
\* and the three USD amounts are the JMD amounts divided by the USD rate.
C25_CifArithmetic ==
  (call.op = "cif_from_rates" /\ ~call.outcome.raised)
    => LET result == call.outcome.result
           product_rate == call.rates[call.product_currency]
           freight_rate == call.rates[call.freight_currency]
           usd_rate == call.rates[USD]
       IN /\ result.product_price_jmd \in Rounded(call.product_price, product_rate, Hundredths)
          /\ result.freight_charges_jmd \in Rounded(call.freight_charges, freight_rate, Hundredths)
          /\ result.insurance_jmd
               \in Rounded(result.insurance_original_currency, product_rate, Hundredths)
          /\ result.cif_jmd = result.product_price_jmd + result.freight_charges_jmd
                                + result.insurance_jmd
          /\ result.cif_usd \in Rounded(result.cif_jmd, Hundredths, usd_rate)
          /\ result.product_price_usd \in Rounded(result.product_price_jmd, Hundredths, usd_rate)
          /\ result.freight_charges_usd \in Rounded(result.freight_charges_jmd, Hundredths, usd_rate)

\* a price in euros with a freight in US dollars, at different rates: the
\* insurance of 11.00 was converted at the euro's rate
C25_Witness ==
  /\ call.op = "cif_from_rates"
  /\ ~call.outcome.raised
  /\ call.product_currency = EURO /\ call.freight_currency = USD
  /\ call.rates[EURO] # call.rates[USD]
  /\ call.product_price = 100000 /\ call.freight_charges = 10000
  /\ call.mode_of_transportation = air
  /\ call.outcome.result.insurance_original_currency = 1100
  /\ call.outcome.result.insurance_jmd = 1100 * (FeedRate(1, EURO) \div Hundredths)
\* how many times driver d was quit
QuitCount(d) == Cardinality({ i \in DOMAIN scraper.quits : scraper.quits[i] = d })

\* the attempts made so far: every attempt ends with one outcome
AttemptsMade == Len(scraper.outcomes)

\* C26: scrape_fx_rates makes at most MAX_RETRIES attempts, returns the rates
\* of the first attempt that yields rates without attempting again, returns an
\* empty list only after all attempts have failed, and every browser driver
\* it started has been quit exactly once when it returns.
C26_RetriesAndDrivers ==
  scraper.pc = "returned"
    => /\ AttemptsMade <= MAX_RETRIES
       /\ \A i \in 1..(AttemptsMade - 1) : scraper.outcomes[i] # "rates"
       /\ scraper.returned # << >> <=> scraper.outcomes[AttemptsMade] = "rates"
       /\ scraper.returned = << >> => AttemptsMade = MAX_RETRIES
       /\ \A d \in 1..scraper.started : QuitCount(d) = 1
\* the Monday-to-Friday non-holiday dates among the n days before the start
BusinessDaysBefore(n) ==
  { d \in (lbd.current_date - n)..(lbd.current_date - 1) :
      d % 7 \in 0..4 /\ d \notin lbd.holidays }

\* the latest Monday-to-Friday date at least 11 days before the start
WeekdayBeyondWindow ==
  MaxOf({ d \in (lbd.current_date - 13)..(lbd.current_date - 11) : d % 7 \in 0..4 })

\* C27 as stated: when a Monday-to-Friday non-holiday date exists in the 10
\* days before the start date the latest such date is returned, and otherwise
\* the start date is returned.
C27_LatestBusinessDayWithinTenDays ==
  lbd.pc = "returned"
    => IF BusinessDaysBefore(10) # {}
         THEN lbd.result = MaxOf(BusinessDaysBefore(10))
         ELSE lbd.result = lbd.current_date

\* what a call returns: the latest business day of the 10 days before the
\* start date; when there is none, the latest Monday-to-Friday date at least
\* 11 days before the start date if it is not a holiday, else the start date
LatestBusinessDay ==
  lbd.pc = "returned"
    => IF BusinessDaysBefore(10) # {}
         THEN lbd.result = MaxOf(BusinessDaysBefore(10))
       ELSE IF WeekdayBeyondWindow \notin lbd.holidays
         THEN lbd.result = WeekdayBeyondWindow
       ELSE lbd.result = lbd.current_date

\* C27, amended: get_last_business_day terminates for every start date and
\* holiday calendar; it returns the latest Monday-to-Friday non-holiday date
\* of the 10 days before the start date when there is one (no business day is
\* skipped); when there is none it returns the latest Monday-to-Friday date at
\* least 11 days before the start date if that date is not a holiday, and the
\* start date otherwise.
C27_TerminatesWithLatestBusinessDay ==
  /\ []LatestBusinessDay
  /\ (lbd.pc = "running") ~> (lbd.pc = "returned")

\* ten days of weekends and holidays before the start date, and the date
\* returned is the business day before them
C27_Witness ==
  /\ lbd.pc = "returned"
  /\ BusinessDaysBefore(10) = {}
  /\ lbd.result < lbd.current_date - 10
  /\ lbd.result \notin lbd.holidays
\* the rows of the rate table with the (date, currency) of a rate
RowsFor(rate) == { r \in fx_rates : r.date = rate.date /\ r.currency = rate.currency }

\* C28: save_to_database returns (saved, skipped) with saved + skipped the
\* number of rates given and saved the number of new rows it committed; a
\* rate whose (date, currency) is stored is skipped and the stored row is
\* neither overwritten nor duplicated, so the rate table never holds two rows
\* for one (date, currency).
C28_SavedAndSkippedCounts ==
  /\ \A r \in fx_rates : RowsFor(r) = {r}
  /\ \A s \in Savers :
       saver[s].pc = "returned"
         => /\ saver[s].returned[1] + saver[s].returned[2] = Len(saver[s].rates)
            /\ saver[s].returned[1] = saver[s].committed
            /\ saver[s].before \subseteq fx_rates
\* the lookups of a non-base currency made so far by the CIF calculation of
\* caller p
CifLookups(p) ==
  IF calc.pc[p] \in {"running", "done"} /\ calc.request[p].kind = "calculate_cif"
    THEN { calc.frame[p].lookups[i] : i \in DOMAIN calc.frame[p].lookups }
           \ { lookup \in { calc.frame[p].lookups[i] : i \in DOMAIN calc.frame[p].lookups } :
                 CodeOf(lookup.currency) = JMD }
    ELSE {}

\* the rate a lookup returned is the stored rate of its currency on date d
RateOfDate(lookup, d) ==
  \E row \in fx_rates :
    /\ row.date = d
    /\ row.currency = dict_get(CURRENCY_MAP, CodeOf(lookup.currency))
    /\ row.selling_rate = lookup.result.rate

\* C29: a CIF calculation that runs while save_to_database commits a day's
\* rates row by row obtains a stored rate for every non-base currency that has
\* a rate in the table, never the fallback 1.0, and the rates of one calculation are
\* all of one date.
C29_StoredRatesDuringSave ==
  \A p \in Procs :
    /\ \A lookup \in CifLookups(p) :
         (lookup.saving /\ lookup.stored) => lookup.result.via = "record"
    /\ \E d \in Dates :
         \A lookup \in CifLookups(p) : lookup.stored => RateOfDate(lookup, d)
\* the table an upload replaces
UploadedTable == IF upload.op = "upload_currencies" THEN currencies ELSE tax_rates_table

\* C30: when upload_currencies or upload_tax_rates returns False, its table
\* holds exactly the rows it held before the call.
C30_FailedUploadKeepsTable ==
  (upload.op \in Uploads /\ upload.pc = "returned" /\ ~upload.returned)
    => UploadedTable = upload.before

====
